---- MODULE Spec2Model ----
(***************************************************************************)
(* Departure lifecycle engine of LCD-Station (src/main.py): the schedule   *)
(* store (_all_items), the visible window (_model / rows), the 1 Hz tick   *)
(* (_refresh_statuses), the window fill (_fill_up_to_six) and the load     *)
(* (set_departures) of class DepartureBoard, and the loaders of class      *)
(* MainWindow that read the schedule file (R key, 3 s file watch) and fall *)
(* back to the sample data.                                                *)
(*                                                                         *)
(* Time is in whole seconds counted from 00:00:00 of the current day.      *)
(* One handler run observes one clock value.  The wall clock is not        *)
(* monotone (datetime.now() is local time), so successive handler runs may *)
(* observe any of the sampled instants; SpecMono restricts the clock to    *)
(* non-decreasing values.                                                  *)
(***************************************************************************)
EXTENDS Integers, Sequences, FiniteSets, TLC

\* ---------------------------------------------------------------- bounds
\* Number of copies of one record that open a long schedule.
MaxFill == 6

\* ------------------------------------------------------ program constants
WindowSize == 6
GraceSecs == 60
DwellSecs == 60
HalfDaySecs == 43200
DaySecs == 86400

\* the thresholds MainWindow hands to the board when config.json has none
DefaultThresholds ==
    [approach_before_secs |-> 77, arrival_before_secs |-> 57,
     stop_before_secs |-> 40, remove_after_secs |-> 10,
     pass_before_secs |-> 20, pass_remove_after_secs |-> 10]

TerminalType == "kaisou"
LocalType == "futsuu"

\* status texts of a row
StOnTime == "on time"
StDelayed == "delayed"
StApproaching == "approaching"
StArrived == "arrived"
StStopped == "stopped"
StDeparted == "departed"
StPassed == "passed"
StTermApproaching == "approaching (terminal)"
StTermArrived == "arrived (terminal)"
StTermStopped == "stopped (terminal)"

\* event keys handed to on_event
CueArrival == "arrival"
CuePreApproach == "pre30"
CueDeparted == "depart"
CuePass == "pass"
Cues == {CueArrival, CuePreApproach, CueDeparted, CuePass}

\* Python's None, and a present value
None == << >>
Some(v) == << v >>
IsNone(x) == x = << >>
Val(x) == x[1]

\* ----------------------------------------------------------------- inputs
\* 08:00:00 of the current day
T0 == 8 * 3600
\* clock samples, relative to T0, that put an 08:00 departure on both sides
\* of every threshold of the tick
Offsets == {-78, -77, -58, -57, -41, -40, 0, 1, 9, 10, 59, 60, 61, 70, 71}
Instants == {T0 + o : o \in Offsets}

TimeStrings == {<<8, 0>>, <<8, 1>>}
Kinds == [type : {TerminalType, LocalType}, pass_through : BOOLEAN]

\* a piece of input text as int() sees it: int(x) = n, or int(x) raises
Numeric(n) == [n |-> n, numeric |-> TRUE]
NonNumeric == [n |-> 0, numeric |-> FALSE]
\* the time string "hh:mm" as hhmm.split(":", 1) sees it: its fields
TimeText(h, m) == <<Numeric(h), Numeric(m)>>

\* an item of the departures list: mapping is false for an item that is not
\* a JSON object; delay_secs is None when the key is missing
Record(hhmm, delay, kind) ==
    [type |-> kind.type, pass_through |-> kind.pass_through,
     mapping |-> TRUE, time |-> TimeText(hhmm[1], hhmm[2]),
     delay_secs |-> Some(Numeric(delay)), first |-> FALSE, last |-> FALSE]

\* departure records: 08:00 and 08:01 on time, and 08:00 running 600 s late
Records ==
    {Record(t, 0, k) : t \in TimeStrings, k \in Kinds}
        \cup {Record(<<8, 0>>, 600, k) : k \in Kinds}

\* kinds of the two-record files: two pass-through trains
PairKinds == {k \in Kinds : k.type = LocalType /\ k.pass_through}

Local(hhmm) == Record(hhmm, 0, [type |-> LocalType, pass_through |-> FALSE])
\* a train that ends its run here
Terminus(hhmm) == Record(hhmm, 0, [type |-> TerminalType, pass_through |-> FALSE])

\* items that are not well formed: a string in place of an object; no
\* delay_secs key; delay_secs "abc"; time "abc", "ab:00", "25:00", "08:60"
NotAMapping == [Local(<<8, 0>>) EXCEPT !.mapping = FALSE]
NoDelay == [Local(<<8, 0>>) EXCEPT !.delay_secs = None]
TextDelay == [Local(<<8, 0>>) EXCEPT !.delay_secs = Some(NonNumeric)]
NoColon == [Local(<<8, 0>>) EXCEPT !.time = <<NonNumeric>>]
TextTime == [Local(<<8, 0>>) EXCEPT !.time = <<NonNumeric, Numeric(0)>>]
Hour25 == [Local(<<8, 0>>) EXCEPT !.time = TimeText(25, 0)]
Minute60 == [Local(<<8, 0>>) EXCEPT !.time = TimeText(8, 60)]
\* a local train of 08:00 whose record is marked the first, or the last, of the day
FirstTrain == [Local(<<8, 0>>) EXCEPT !.first = TRUE]
LastTrain == [Local(<<8, 0>>) EXCEPT !.last = TRUE]

BadRecords == {NotAMapping, NoDelay, TextDelay, NoColon, TextTime, Hour25, Minute60}

RECURSIVE Repeat(_, _)
Repeat(r, n) == IF n = 0 THEN << >> ELSE <<r>> \o Repeat(r, n - 1)

\* departures lists: empty; one record; an 08:01 record followed by an 08:00
\* record; MaxFill local trains of 08:01 followed by one more record (more
\* than a window); an item that is not well formed, alone, before and after
\* a local train of 08:01; a local train of 08:01 followed by the first, or
\* the last, train of the day; MaxFill trains of 08:00 that end their run
\* here followed by a local train of 08:00.  The lists of two and more are
\* not in time order.
Schedules ==
    {<< >>} \cup {<<r>> : r \in Records}
        \cup {<<Record(<<8, 1>>, 0, k), Record(<<8, 0>>, 0, k)>> : k \in PairKinds}
        \cup {Append(Repeat(Local(<<8, 1>>), MaxFill), r) : r \in Records}
        \cup {<<b>> : b \in BadRecords}
        \cup {<<Local(<<8, 1>>), b>> : b \in BadRecords}
        \cup {<<b, Local(<<8, 1>>)>> : b \in BadRecords}
        \cup {<<Local(<<8, 1>>), r>> : r \in {FirstTrain, LastTrain}}
        \cup {Append(Repeat(Terminus(<<8, 0>>), MaxFill), Local(<<8, 0>>))}

\* a day of clock readings and departure times, on both sides of the
\* twelve-hour limit of the rollover
DayTimes == {<<0, 0>>, <<0, 1>>, <<7, 59>>, <<8, 0>>, <<11, 59>>, <<12, 0>>, <<23, 59>>}
DayOffsets == {0, 1, 43199, 43200, 43201, 43260, 71999, 72000, 72001, 72060, 86399}
DayInstants == {d * DaySecs + o : d \in {0, 1}, o \in DayOffsets}

\* lists a reload may find in place of the loaded one
Reloads == {<< >>, <<Local(<<8, 0>>)>>, <<Local(<<8, 0>>), NotAMapping>>}

\* thresholds of a config.json that removes pass-through trains a second
\* earlier than the others
QuickPass == [DefaultThresholds EXCEPT !.pass_remove_after_secs = 9]

\* thresholds of a config.json with a pass_before_secs above approach_before_secs
WidePass == [DefaultThresholds EXCEPT !.pass_before_secs = 100]

\* the schedule path as a handler run finds it: no file; a file that cannot
\* be opened or is not JSON; a JSON file holding a departures list
DiskAbsent == [items |-> << >>, state |-> "absent"]
DiskGarbled == [items |-> << >>, state |-> "garbled"]
DiskOk(departures) == [items |-> departures, state |-> "ok"]
\* a handler run that does not look at the schedule path
NotRead == [items |-> << >>, state |-> "not read"]

\* ------------------------------------------------------------------ state
VARIABLES
    all_items,      \* _all_items: sequence of [raw, time, shown]
    model,          \* _model / rows: sequence of visible entries
    notice_active,  \* _notice_blink.isActive() (notice_label text not empty)
    end_blink,      \* _end_blink.isActive() (end-of-service text shown)
    file,           \* the departures list of the last set_departures that returned
    found,          \* the schedule path as the last handler run found it
    thresholds,     \* _thresholds: the thresholds of config.json
    now,            \* clock value observed by the last handler run
    lastOp,         \* the last handler run: "load", "tick", or "skip" (a
                    \* file watch that returned without loading)
    placed,         \* per schedule entry: times promoted since the load (capped)
    firedNow,       \* <<entry, cue>> pairs emitted by the last handler run
    removedNow,     \* schedule entries removed from the window by the last handler run
    addedNow,       \* schedule entries promoted by the last handler run, in order
    heard,          \* the log a listener on on_event keeps: the <<entry, cue>> pairs
                    \* emitted since the list in force was first loaded; None when
                    \* no log is kept
    after_id,       \* schedule editor, Debouncer._after_id: None or Some(timer id)
    timers,         \* schedule editor: the Tk timers pending, as <<id, due>> pairs
    ms,             \* schedule editor: the time of its event loop, in milliseconds
    last_trigger,   \* schedule editor: time of the last trigger() call, None before
                    \* the first
    saves,          \* schedule editor: runs of the callback since the last
                    \* trigger() call (capped)
    burst           \* schedule editor: trigger() calls of the current burst, the
                    \* first being the first call after a run of the callback
                    \* (capped)

editorVars == <<after_id, timers, ms, last_trigger, saves, burst>>

boardVars == <<all_items, model, notice_active, end_blink, file, found, thresholds,
               now, placed, firedNow, removedNow, addedNow, heard>>

vars == <<all_items, model, notice_active, end_blink, file, found, thresholds,
          now, lastOp, placed, firedNow, removedNow, addedNow, heard,
          after_id, timers, ms, last_trigger, saves, burst>>

\* the schedule editor before its first edit: no timer, no call yet
EditorIdle ==
    /\ after_id = None
    /\ timers = {}
    /\ ms = 0
    /\ last_trigger = None
    /\ saves = 0
    /\ burst = 0

\* the thresholds as a tick reads them
ApproachBeforeSecs == thresholds.approach_before_secs
ArrivalBeforeSecs == thresholds.arrival_before_secs
StopBeforeSecs == thresholds.stop_before_secs
RemoveAfterSecs == thresholds.remove_after_secs
PassBeforeSecs == thresholds.pass_before_secs
PassRemoveAfterSecs == thresholds.pass_remove_after_secs

\* ---------------------------------------------------------- normalization
\* hour, minute = [int(x) for x in hhmm.split(":", 1)], and 0, 0 when the
\* split, the unpacking or an int() raises
HourMinute(hhmm) ==
    IF Len(hhmm) = 2 /\ hhmm[1].numeric /\ hhmm[2].numeric
    THEN <<hhmm[1].n, hhmm[2].n>>
    ELSE <<0, 0>>

\* now.replace(hour=hour, minute=minute, ...) is outside the try: it raises
\* ValueError for an hour outside 0..23 or a minute outside 0..59
ReplaceRaises(hhmm) ==
    HourMinute(hhmm)[1] \notin 0..23 \/ HourMinute(hhmm)[2] \notin 0..59

\* mutant: a time exactly twelve hours back is moved to tomorrow as well
ParseTodayOrTomorrowTime_Inclusive(hhmm, clock) ==
    LET midnight == (clock \div DaySecs) * DaySecs
        candidate == midnight + HourMinute(hhmm)[1] * 3600 + HourMinute(hhmm)[2] * 60
    IN IF candidate <= clock - HalfDaySecs THEN candidate + DaySecs ELSE candidate

\* the value returned when replace does not raise
ParseTodayOrTomorrowTime(hhmm, clock) ==
    LET midnight == (clock \div DaySecs) * DaySecs
        candidate == midnight + HourMinute(hhmm)[1] * 3600 + HourMinute(hhmm)[2] * 60
    IN IF candidate < clock - HalfDaySecs THEN candidate + DaySecs ELSE candidate

\* int(item.get("delay_secs", 0) or 0): 0 for a missing key, ValueError for
\* a text int() rejects
DelayRaises(item) == ~IsNone(item.delay_secs) /\ ~Val(item.delay_secs).numeric
DelaySecs(item) == IF IsNone(item.delay_secs) THEN 0 ELSE Val(item.delay_secs).n

\* does the body of the for loop of set_departures raise on this item:
\* item.get on an item that is not a mapping, replace, int
ItemRaises(item) == ~item.mapping \/ ReplaceRaises(item.time) \/ DelayRaises(item)

\* list.sort(key=time) is stable: x goes after every element with time <= x.time
RECURSIVE InsertByTime(_, _)
InsertByTime(s, x) ==
    IF s = << >> THEN <<x>>
    ELSE IF x.time < s[Len(s)].time
         THEN Append(InsertByTime(SubSeq(s, 1, Len(s) - 1), x), s[Len(s)])
         ELSE Append(s, x)

\* mutant: the list is left in the order of the file
SortByTime_Keep(s) == s

RECURSIVE SortByTime(_)
SortByTime(s) ==
    IF s = << >> THEN << >>
    ELSE InsertByTime(SortByTime(SubSeq(s, 1, Len(s) - 1)), s[Len(s)])

\* mutant: the delay is left out of the effective time
ScheduleEntry_NoDelay(item, clock) ==
    [time |-> ParseTodayOrTomorrowTime(item.time, clock),
     raw |-> item,
     shown |-> FALSE]

ScheduleEntry(item, clock) ==
    [time |-> ParseTodayOrTomorrowTime(item.time, clock) + DelaySecs(item),
     raw |-> item,
     shown |-> FALSE]

\* the store when no item raises: every item, sorted
BuildSchedule(departures, clock) ==
    SortByTime([i \in 1..Len(departures) |-> ScheduleEntry(departures[i], clock)])

\* index of the first item the for loop raises on, 0 when it completes
FirstRaising(departures) ==
    LET S == {i \in 1..Len(departures) : ItemRaises(departures[i])}
    IN IF S = {} THEN 0 ELSE CHOOSE i \in S : \A j \in S : i <= j

\* ------------------------------------------------------------ window fill
\* the observation counters stop at 2
Cap(n) == IF n >= 2 THEN 2 ELSE n

\* the row widget built for a schedule entry
CreateRowFromItem(item) ==
    [status |-> StOnTime,
     first_badge |-> item.first,
     last_badge |-> item.last,
     next_badge |-> FALSE]

\* the _model entry appended for schedule entry number i
VisibleEntry(items, i) ==
    [time |-> items[i].time,
     raw |-> items[i].raw,
     id |-> i,              \* which schedule entry this row shows
     row |-> CreateRowFromItem(items[i].raw),
     flags |-> [pass_through |-> items[i].raw.pass_through,
                terminal_here |-> items[i].raw.type = TerminalType,
                is_delayed |-> DelaySecs(items[i].raw) > 0],
     dwell_until |-> None,
     post_depart_at |-> None,
     played |-> [pre77 |-> FALSE, arrival |-> FALSE, departed |-> FALSE, pass |-> FALSE],
     last_delta |-> None,
     emitted |-> [c \in Cues |-> 0],   \* observation: cues emitted for this row (capped)
     first_past |-> None]              \* observation: clock of the first tick at or after time + 60 s

\* mutant: the shown flag is not looked at
Eligible_IgnoreShown(it, clock) == it.time >= clock - GraceSecs

\* mutant: the test of the grace is turned round
Eligible_Reversed(it, clock) == ~it.shown /\ it.time <= clock - GraceSecs

\* the inner for loop: the first entry not shown and not older than the grace
Eligible(it, clock) == ~it.shown /\ it.time >= clock - GraceSecs

\* mutant: the scan keeps the last match instead of stopping at the first
NextItem_Last(items, clock) ==
    LET S == {i \in 1..Len(items) : Eligible(items[i], clock)}
    IN IF S = {} THEN 0 ELSE CHOOSE i \in S : \A j \in S : i >= j

NextItem(items, clock) ==
    LET S == {i \in 1..Len(items) : Eligible(items[i], clock)}
    IN IF S = {} THEN 0 ELSE CHOOSE i \in S : \A j \in S : i <= j

\* mutant: an if in place of the while, one promotion per call
FillLoop_Once(items, win, added, clock) ==
    IF Len(win) < WindowSize /\ NextItem(items, clock) # 0
    THEN LET i == NextItem(items, clock)
         IN [items |-> [items EXCEPT ![i].shown = TRUE],
             win |-> Append(win, VisibleEntry(items, i)),
             added |-> Append(added, i)]
    ELSE [items |-> items, win |-> win, added |-> added]

\* mutant: a promoted entry goes to the top of the window
RECURSIVE FillLoop_Front(_, _, _, _)
FillLoop_Front(items, win, added, clock) ==
    IF Len(win) < WindowSize /\ NextItem(items, clock) # 0
    THEN LET i == NextItem(items, clock)
         IN FillLoop_Front([items EXCEPT ![i].shown = TRUE],
                           <<VisibleEntry(items, i)>> \o win,
                           Append(added, i), clock)
    ELSE [items |-> items, win |-> win, added |-> added]

\* the while loop; result: the schedule, the window and the promoted entries
RECURSIVE FillLoop(_, _, _, _)
FillLoop(items, win, added, clock) ==
    IF Len(win) < WindowSize /\ NextItem(items, clock) # 0
    THEN LET i == NextItem(items, clock)
         IN FillLoop([items EXCEPT ![i].shown = TRUE],
                     Append(win, VisibleEntry(items, i)),
                     Append(added, i), clock)
    ELSE [items |-> items, win |-> win, added |-> added]

AnyFuture(items, clock) ==
    \E i \in 1..Len(items) : ~items[i].shown /\ items[i].time >= clock

\* mutant: the rows are counted from 1, the second row is the next departure
TagBadges_SecondRow(items, win, clock) ==
    [i \in 1..Len(win) |->
        [win[i] EXCEPT
            !.row.next_badge = (i = 2),
            !.row.last_badge =
                IF i = Len(win) /\ ~AnyFuture(items, clock) THEN TRUE
                ELSE IF ~win[i].raw.last THEN FALSE
                ELSE @]]

\* mutant: the last-train badge is hidden on every row but the tagged one
TagBadges_HideExplicit(items, win, clock) ==
    [i \in 1..Len(win) |->
        [win[i] EXCEPT
            !.row.next_badge = (i = 1),
            !.row.last_badge = (i = Len(win) /\ ~AnyFuture(items, clock))]]

\* "mark next badge" and "auto-mark last train"
TagBadges(items, win, clock) ==
    [i \in 1..Len(win) |->
        [win[i] EXCEPT
            !.row.next_badge = (i = 1),
            !.row.last_badge =
                IF i = Len(win) /\ ~AnyFuture(items, clock) THEN TRUE
                ELSE IF ~win[i].raw.last THEN FALSE
                ELSE @]]

\* mutant: an empty schedule is not reported as ended
EndOfService_NonEmpty(items, win, clock) ==
    Len(items) > 0 /\ Len(win) = 0 /\ ~AnyFuture(items, clock)

\* mutant: the service has not ended while an entry was never shown
EndOfService_AllShown(items, win, clock) ==
    Len(win) = 0 /\ \A i \in 1..Len(items) : items[i].shown

\* _toggle_end_of_service_message: is the end-of-service text switched on
EndOfService(items, win, clock) == Len(win) = 0 /\ ~AnyFuture(items, clock)

FillUpToSix(items, win, clock) ==
    LET f == FillLoop(items, win, << >>, clock)
    IN [items |-> f.items,
        win |-> TagBadges(f.items, f.win, clock),
        added |-> f.added,
        ended |-> EndOfService(f.items, f.win, clock)]

\* ------------------------------------------------------------------- tick
Delta(e, clock) == e.time - clock

\* mutant: the dwell is restarted at every tick with delta <= 0
WithDwell_Restart(e, clock) ==
    IF e.flags.terminal_here /\ Delta(e, clock) <= 0
    THEN [e EXCEPT !.dwell_until = Some(clock + DwellSecs)]
    ELSE e

\* a terminal-here entry starts its dwell at the first tick with delta <= 0
WithDwell(e, clock) ==
    IF e.flags.terminal_here /\ IsNone(e.dwell_until) /\ Delta(e, clock) <= 0
    THEN [e EXCEPT !.dwell_until = Some(e.time + DwellSecs)]
    ELSE e

\* mutant: the post-depart phase is started again at every tick
WithPostDepart_Restart(e, clock) ==
    IF e.flags.terminal_here /\ ~IsNone(e.dwell_until) /\ clock >= Val(e.dwell_until)
    THEN [e EXCEPT !.post_depart_at = Some(clock)]
    ELSE e

\* ... and its post-depart phase at the first tick at or after dwell_until
WithPostDepart(e, clock) ==
    IF e.flags.terminal_here /\ ~IsNone(e.dwell_until) /\ clock >= Val(e.dwell_until)
       /\ IsNone(e.post_depart_at)
    THEN [e EXCEPT !.post_depart_at = Some(clock)]
    ELSE e

\* mutant: a terminal-here entry is removed like any other entry
ShouldRemove_NoDwell(e, clock) ==
    \/ e.flags.pass_through /\ Delta(e, clock) <= -PassRemoveAfterSecs
    \/ ~e.flags.pass_through /\ Delta(e, clock) <= -RemoveAfterSecs

\* mutant: one threshold for every entry that is not in its dwell
ShouldRemove_OneThreshold(e, clock) ==
    IF e.flags.terminal_here /\ ~IsNone(e.dwell_until)
    THEN clock >= Val(e.dwell_until) /\ clock - Val(e.post_depart_at) >= RemoveAfterSecs
    ELSE Delta(e, clock) <= -RemoveAfterSecs

\* the removal policy, on an entry that went through WithDwell and WithPostDepart
ShouldRemove(e, clock) ==
    IF e.flags.terminal_here /\ ~IsNone(e.dwell_until)
    THEN clock >= Val(e.dwell_until) /\ clock - Val(e.post_depart_at) >= RemoveAfterSecs
    ELSE \/ e.flags.pass_through /\ Delta(e, clock) <= -PassRemoveAfterSecs
         \/ ~e.flags.pass_through /\ Delta(e, clock) <= -RemoveAfterSecs

OnTimeOrDelayed(e) == IF e.flags.is_delayed THEN StDelayed ELSE StOnTime

\* mutant: a pass-through train is 'approaching' from pass_before_secs on
StatusOf_PassBefore(e, clock) ==
    LET delta == Delta(e, clock)
    IN IF 0 <= delta
       THEN IF e.flags.terminal_here
            THEN IF delta <= StopBeforeSecs THEN StTermStopped
                 ELSE IF delta <= ArrivalBeforeSecs THEN StTermArrived
                 ELSE IF delta <= ApproachBeforeSecs THEN StTermApproaching
                 ELSE OnTimeOrDelayed(e)
            ELSE IF e.flags.pass_through
            THEN IF delta <= PassBeforeSecs THEN StApproaching
                 ELSE OnTimeOrDelayed(e)
            ELSE IF delta <= StopBeforeSecs THEN StStopped
                 ELSE IF delta <= ArrivalBeforeSecs THEN StArrived
                 ELSE IF delta <= ApproachBeforeSecs THEN StApproaching
                 ELSE OnTimeOrDelayed(e)
       ELSE IF e.flags.terminal_here
            THEN IF ~IsNone(e.dwell_until) /\ clock >= Val(e.dwell_until)
                 THEN StDeparted ELSE StTermStopped
            ELSE IF e.flags.pass_through THEN StPassed
            ELSE StDeparted

\* the text given to row.update_status
StatusOf(e, clock) ==
    LET delta == Delta(e, clock)
    IN IF 0 <= delta
       THEN IF e.flags.terminal_here
            THEN IF delta <= StopBeforeSecs THEN StTermStopped
                 ELSE IF delta <= ArrivalBeforeSecs THEN StTermArrived
                 ELSE IF delta <= ApproachBeforeSecs THEN StTermApproaching
                 ELSE OnTimeOrDelayed(e)
            ELSE IF e.flags.pass_through
            THEN IF delta <= ApproachBeforeSecs THEN StApproaching
                 ELSE OnTimeOrDelayed(e)
            ELSE IF delta <= StopBeforeSecs THEN StStopped
                 ELSE IF delta <= ArrivalBeforeSecs THEN StArrived
                 ELSE IF delta <= ApproachBeforeSecs THEN StApproaching
                 ELSE OnTimeOrDelayed(e)
       ELSE IF e.flags.terminal_here
            THEN IF ~IsNone(e.dwell_until) /\ clock >= Val(e.dwell_until)
                 THEN StDeparted ELSE StTermStopped
            ELSE IF e.flags.pass_through THEN StPassed
            ELSE StDeparted

\* mutant: pass_through decides the notice, terminal-here or not
NoticeWrite_PassWins(e, clock) ==
    LET delta == Delta(e, clock)
    IN IF ~e.flags.pass_through THEN "keep"
       ELSE IF 0 <= delta
            THEN IF delta <= ApproachBeforeSecs THEN "on" ELSE "off"
            ELSE IF delta > -PassRemoveAfterSecs THEN "on" ELSE "off"

\* what the entry writes to the platform notice: "on", "off" or "keep"
NoticeWrite(e, clock) ==
    LET delta == Delta(e, clock)
    IN IF e.flags.terminal_here \/ ~e.flags.pass_through THEN "keep"
       ELSE IF 0 <= delta
            THEN IF delta <= ApproachBeforeSecs THEN "on" ELSE "off"
            ELSE IF delta > -PassRemoveAfterSecs THEN "on" ELSE "off"

\* mutant: the played flags are not looked at
CuesOf_IgnorePlayed(e, clock) ==
    LET delta == Delta(e, clock)
    IN IF 0 <= delta
       THEN IF IsNone(e.last_delta) THEN {}
            ELSE LET last == Val(e.last_delta)
                 IN {c \in Cues :
                        \/ c = CueArrival /\ last > ArrivalBeforeSecs
                           /\ ArrivalBeforeSecs >= delta
                        \/ c = CuePreApproach /\ last > ApproachBeforeSecs
                           /\ ApproachBeforeSecs >= delta
                        \/ c = CuePass /\ e.flags.pass_through /\ last > 0
                           /\ 0 >= delta}
       ELSE IF ~e.flags.terminal_here /\ ~e.flags.pass_through
            THEN {CueDeparted} ELSE {}

\* mutant: the departed cue waits for a previous delta, as the other cues do
CuesOf_DepartedNeedsLast(e, clock) ==
    LET delta == Delta(e, clock)
    IN IF 0 <= delta
       THEN IF IsNone(e.last_delta) THEN {}
            ELSE LET last == Val(e.last_delta)
                 IN {c \in Cues :
                        \/ c = CueArrival /\ last > ArrivalBeforeSecs
                           /\ ArrivalBeforeSecs >= delta /\ ~e.played.arrival
                        \/ c = CuePreApproach /\ last > ApproachBeforeSecs
                           /\ ApproachBeforeSecs >= delta /\ ~e.played.pre77
                        \/ c = CuePass /\ e.flags.pass_through /\ last > 0
                           /\ 0 >= delta /\ ~e.played.pass}
       ELSE IF ~e.flags.terminal_here /\ ~e.flags.pass_through /\ ~e.played.departed
               /\ ~IsNone(e.last_delta)
            THEN {CueDeparted} ELSE {}

\* the cues the entry emits at this tick
CuesOf(e, clock) ==
    LET delta == Delta(e, clock)
    IN IF 0 <= delta
       THEN IF IsNone(e.last_delta) THEN {}
            ELSE LET last == Val(e.last_delta)
                 IN {c \in Cues :
                        \/ c = CueArrival /\ last > ArrivalBeforeSecs
                           /\ ArrivalBeforeSecs >= delta /\ ~e.played.arrival
                        \/ c = CuePreApproach /\ last > ApproachBeforeSecs
                           /\ ApproachBeforeSecs >= delta /\ ~e.played.pre77
                        \/ c = CuePass /\ e.flags.pass_through /\ last > 0
                           /\ 0 >= delta /\ ~e.played.pass}
       ELSE IF ~e.flags.terminal_here /\ ~e.flags.pass_through /\ ~e.played.departed
            THEN {CueDeparted} ELSE {}

\* one iteration of the for loop over _model
EvalEntry(e0, clock) ==
    LET e == WithPostDepart(WithDwell(e0, clock), clock)
        cues == CuesOf(e, clock)
    IN IF ShouldRemove(e, clock)
       THEN [entry |-> e, remove |-> TRUE, cues |-> {}, notice |-> "keep"]
       ELSE [entry |-> [e EXCEPT
                           !.row.status = StatusOf(e, clock),
                           !.played = [pre77 |-> @.pre77 \/ CuePreApproach \in cues,
                                       arrival |-> @.arrival \/ CueArrival \in cues,
                                       departed |-> @.departed \/ CueDeparted \in cues,
                                       pass |-> @.pass \/ CuePass \in cues],
                           !.last_delta = Some(Delta(e, clock)),
                           !.emitted = [c \in Cues |->
                                           IF c \in cues THEN Cap(@[c] + 1) ELSE @[c]],
                           !.first_past = IF IsNone(@) /\ clock >= e.time + DwellSecs
                                          THEN Some(clock) ELSE @],
             remove |-> FALSE,
             cues |-> cues,
             notice |-> NoticeWrite(e, clock)]

\* the for loop and the deletion of the rows in to_remove
RECURSIVE RefreshLoop(_, _, _, _)
RefreshLoop(win, i, acc, clock) ==
    IF i > Len(win) THEN acc
    ELSE LET r == EvalEntry(win[i], clock)
         IN RefreshLoop(win, i + 1,
                [win |-> IF r.remove THEN acc.win ELSE Append(acc.win, r.entry),
                 removed |-> IF r.remove THEN acc.removed \cup {win[i].id} ELSE acc.removed,
                 fired |-> acc.fired \cup {<<win[i].id, c>> : c \in r.cues},
                 notice |-> IF r.notice = "on" THEN TRUE
                            ELSE IF r.notice = "off" THEN FALSE
                            ELSE acc.notice],
                clock)

RefreshStatuses(win, notice, clock) ==
    RefreshLoop(win, 1, [win |-> << >>, removed |-> {}, fired |-> {}, notice |-> notice], clock)

\* ---------------------------------------------------------------- actions

\* mutant: the old window is not cleared
SetDepartures_KeepWindow(departures, win, clock) ==
    IF FirstRaising(departures) # 0
    THEN [raised |-> TRUE,
          items |-> [i \in 1..(FirstRaising(departures) - 1) |->
                        ScheduleEntry(departures[i], clock)],
          win |-> win]
    ELSE LET f == FillUpToSix(BuildSchedule(departures, clock), win, clock)
         IN [raised |-> FALSE, items |-> f.items, win |-> f.win,
             added |-> f.added, ended |-> f.ended]

\* set_departures: the store is cleared and rebuilt item by item; when an
\* item raises, the exception leaves with the store half built (not sorted)
\* and the old window win in place; otherwise the store is sorted, the window
\* is cleared and filled
SetDepartures(departures, win, clock) ==
    IF FirstRaising(departures) # 0
    THEN [raised |-> TRUE,
          items |-> [i \in 1..(FirstRaising(departures) - 1) |->
                        ScheduleEntry(departures[i], clock)],
          win |-> win]
    ELSE LET f == FillUpToSix(BuildSchedule(departures, clock), << >>, clock)
         IN [raised |-> FALSE, items |-> f.items, win |-> f.win,
             added |-> f.added, ended |-> f.ended]

\* _load_sample_data: five trains 2, 7, 12, 18 and 25 minutes after the
\* current minute, with no type, delay_secs, pass_through, first or last key
SampleMinutes == <<2, 7, 12, 18, 25>>
SampleRecord(clock, minutes) ==
    LET t == ((clock - (clock % 60)) + minutes * 60) % DaySecs
    IN [type |-> "", pass_through |-> FALSE,
        mapping |-> TRUE, time |-> TimeText(t \div 3600, (t % 3600) \div 60),
        delay_secs |-> None, first |-> FALSE, last |-> FALSE]
LoadSampleData(clock) ==
    [k \in 1..Len(SampleMinutes) |-> SampleRecord(clock, SampleMinutes[k])]

\* mutant: a load that raised leaves the board as the exception left it
LoadDeparturesFromJsonOrSample_NoFallback(d, win, clock) ==
    LET direct == SetDepartures(d.items, win, clock)
    IN IF d.state = "ok"
       THEN [file |-> d.items,
             board |-> IF direct.raised
                       THEN [raised |-> FALSE, items |-> direct.items,
                             win |-> direct.win, added |-> << >>, ended |-> FALSE]
                       ELSE direct]
       ELSE [file |-> LoadSampleData(clock),
             board |-> SetDepartures(LoadSampleData(clock), win, clock)]

\* _load_departures_from_json_or_sample: the list of the file is loaded; the
\* sample data is loaded when there is no file, when it cannot be read as
\* JSON and when set_departures raised.  Result: the list loaded and the board.
LoadDeparturesFromJsonOrSample(d, win, clock) ==
    LET direct == SetDepartures(d.items, win, clock)
    IN IF d.state = "ok" /\ ~direct.raised
       THEN [file |-> d.items, board |-> direct]
       ELSE [file |-> LoadSampleData(clock),
             board |-> SetDepartures(LoadSampleData(clock),
                                     IF d.state = "ok" THEN direct.win ELSE win,
                                     clock)]

Bump(counts, added) ==
    [i \in DOMAIN counts |->
        Cap(counts[i] + Cardinality({k \in 1..Len(added) : added[k] = i}))]

\* the files of one local train, one for each departure time of the day
DayDisks == {DiskOk(<<Local(hhmm)>>) : hhmm \in DayTimes}

\* what the schedule path may hold at start-up and at a reload
InitDisks == {DiskAbsent, DiskGarbled} \cup {DiskOk(l) : l \in Schedules}
ReloadDisks == {DiskAbsent, DiskGarbled} \cup {DiskOk(l) : l \in Reloads \cup {file}}

\* start-ups: the default thresholds with every schedule path, QuickPass and
\* WidePass with the lists of one and two items that hold a pass-through train
StartUps ==
    {<<DefaultThresholds, d>> : d \in InitDisks}
        \cup {<<th, DiskOk(l)>> :
                 th \in {QuickPass, WidePass},
                 l \in {x \in Schedules :
                           Len(x) <= 2 /\ \E k \in DOMAIN x : x[k].pass_through}}

\* the board after MainWindow.__init__: built, loaded once, thresholds set
Init ==
    \E s \in StartUps, clock \in Instants :
    \E d \in {s[2]} :
        \E l \in {LoadDeparturesFromJsonOrSample(d, << >>, clock)} :
           /\ thresholds = s[1]
           /\ all_items = l.board.items
           /\ model = l.board.win
           /\ notice_active = FALSE
           /\ end_blink = l.board.ended
           /\ file = l.file
           /\ found = d
           /\ now = clock
           /\ lastOp = "load"
           /\ placed = Bump([i \in 1..Len(l.board.items) |-> 0], l.board.added)
           /\ firedNow = {}
           /\ removedNow = {}
           /\ addedNow = l.board.added
           /\ heard = None
           /\ EditorIdle

\* _load_departures_from_json_or_sample, run by the R key and by a file
\* watch that found a changed file
Load(d, clock) ==
    \E l \in {LoadDeparturesFromJsonOrSample(d, model, clock)} :
       /\ all_items' = l.board.items
       /\ model' = l.board.win
       /\ end_blink' = l.board.ended
       /\ file' = l.file
       /\ found' = d
       /\ now' = clock
       /\ lastOp' = "load"
       /\ placed' = Bump([i \in 1..Len(l.board.items) |-> 0], l.board.added)
       /\ firedNow' = {}
       /\ removedNow' = {}
       /\ addedNow' = l.board.added
       /\ heard' = IF IsNone(heard) \/ l.file = file THEN heard ELSE Some({})
       /\ UNCHANGED editorVars
       /\ UNCHANGED <<notice_active, thresholds>>

\* _maybe_reload_departures: the file watch returns when there is no file
MaybeReloadDepartures(d, clock) ==
    IF d.state = "absent"
    THEN /\ found' = d
         /\ now' = clock
         /\ lastOp' = "skip"
         /\ firedNow' = {}
         /\ removedNow' = {}
         /\ addedNow' = << >>
         /\ UNCHANGED <<all_items, model, notice_active, end_blink, file, placed,
                        thresholds, heard>>
         /\ UNCHANGED editorVars
    ELSE Load(d, clock)

Tick(clock) ==
    \E r \in {RefreshStatuses(model, notice_active, clock)} :
    \E f \in {FillUpToSix(all_items, r.win, clock)} :
       /\ all_items' = f.items
       /\ model' = f.win
       /\ notice_active' = r.notice
       /\ end_blink' = f.ended
       /\ found' = NotRead
       /\ now' = clock
       /\ lastOp' = "tick"
       /\ UNCHANGED <<file, thresholds>>
       /\ placed' = Bump(placed, f.added)
       /\ firedNow' = r.fired
       /\ removedNow' = r.removed
       /\ addedNow' = f.added
       /\ heard' = IF IsNone(heard) THEN heard ELSE Some(Val(heard) \cup r.fired)
       /\ UNCHANGED editorVars

\* A reload observes the clock sample of the handler run before it: the tick
\* runs every second, the file watch every three.  The R key is pressed with
\* no file or with the loaded list in the file.
Next ==
    \/ \E clock \in Instants : Tick(clock)
    \/ \E d \in ReloadDisks : MaybeReloadDepartures(d, now)
    \/ \E d \in {DiskAbsent, DiskOk(file)} : Load(d, now)

Spec == Init /\ [][Next]_vars

\* the same board under a clock that never goes back
NextMono ==
    \/ \E clock \in Instants : clock >= now /\ Tick(clock)
    \/ \E d \in ReloadDisks : MaybeReloadDepartures(d, now)
    \/ \E d \in {DiskAbsent, DiskOk(file)} : Load(d, now)

SpecMono == Init /\ [][NextMono]_vars

\* The board left to its tick: loaded when no effective time of the schedule
\* is earlier than the clock, no reload, a clock that advances.
InitEarly == Init /\ \A i \in DOMAIN all_items : all_items[i].time >= now

NextTicks == \E clock \in Instants : clock > now /\ Tick(clock)

SpecTicks == InitEarly /\ [][NextTicks]_vars

\* The time parser over a whole day: the board starts on a file of one
\* record at any reading of the clock of the first day, and the R key loads
\* a file of one record at any reading of either day.
InitDay ==
    \E d \in DayDisks, clock \in DayOffsets :
        \E l \in {LoadDeparturesFromJsonOrSample(d, << >>, clock)} :
           /\ thresholds = DefaultThresholds
           /\ all_items = l.board.items
           /\ model = l.board.win
           /\ notice_active = FALSE
           /\ end_blink = l.board.ended
           /\ file = l.file
           /\ found = d
           /\ now = clock
           /\ lastOp = "load"
           /\ placed = Bump([i \in 1..Len(l.board.items) |-> 0], l.board.added)
           /\ firedNow = {}
           /\ removedNow = {}
           /\ addedNow = l.board.added
           /\ heard = None
           /\ EditorIdle

NextDay == \E d \in DayDisks, clock \in DayInstants : Load(d, clock)

SpecDay == InitDay /\ [][NextDay]_vars

\* The board left to its 1 Hz status timer for good: the start-up load, then
\* ticks only, each later than the one before by one of LiveSteps seconds (a
\* timer that fires on time, late, and after a stall), up to LiveEnd.  The
\* timer keeps firing (QTimer, 1 s): weak fairness.
LiveSteps == {1, 15, 60}
LiveEnd == T0 + 250
LiveStarts == {T0 - 78, T0 + 1}
LiveSchedules ==
    {<<Record(<<8, 0>>, 0, k)>> : k \in Kinds}
        \cup {<<Record(<<8, 1>>, 0, k), Record(<<8, 0>>, 0, k)>> : k \in PairKinds}
        \cup {Append(Repeat(Local(<<8, 0>>), MaxFill), Local(<<8, 1>>))}
        \cup {Append(Repeat(Terminus(<<8, 0>>), MaxFill), Local(<<8, 0>>))}
        \cup {<<Record(<<8, 1>>, 0, [type |-> TerminalType, pass_through |-> TRUE]),
                Record(<<8, 0>>, 0, [type |-> LocalType, pass_through |-> TRUE])>>}

InitLive ==
    \E departures \in LiveSchedules, clock \in LiveStarts :
        \E l \in {LoadDeparturesFromJsonOrSample(DiskOk(departures), << >>, clock)} :
           /\ thresholds = DefaultThresholds
           /\ all_items = l.board.items
           /\ model = l.board.win
           /\ notice_active = FALSE
           /\ end_blink = l.board.ended
           /\ file = l.file
           /\ found = DiskOk(departures)
           /\ now = clock
           /\ lastOp = "load"
           /\ placed = Bump([i \in 1..Len(l.board.items) |-> 0], l.board.added)
           /\ firedNow = {}
           /\ removedNow = {}
           /\ addedNow = l.board.added
           /\ heard = None
           /\ EditorIdle

NextLive == \E step \in LiveSteps : now + step <= LiveEnd /\ Tick(now + step)

\* the timer fires: the clock value the board observes moves on by a step.
\* _refresh_statuses has no early return, so a tick is possible exactly when
\* the clock can move on, and the steps of NextLive are the steps that move it.
TimerFires == \E step \in LiveSteps : now + step <= LiveEnd /\ now' = now + step

SpecLive == InitLive /\ [][NextLive]_vars /\ WF_now(TimerFires)

\* The board with a listener that logs the cues: start-up on a file of one
\* record, then ticks under a clock that advances, and the R key pressed with
\* the file unchanged.
InitReplay ==
    \E k \in Kinds, clock \in Instants :
        \E d \in {DiskOk(<<Record(<<8, 0>>, 0, k)>>)} :
        \E l \in {LoadDeparturesFromJsonOrSample(d, << >>, clock)} :
           /\ thresholds = DefaultThresholds
           /\ all_items = l.board.items
           /\ model = l.board.win
           /\ notice_active = FALSE
           /\ end_blink = l.board.ended
           /\ file = l.file
           /\ found = d
           /\ now = clock
           /\ lastOp = "load"
           /\ placed = Bump([i \in 1..Len(l.board.items) |-> 0], l.board.added)
           /\ firedNow = {}
           /\ removedNow = {}
           /\ addedNow = l.board.added
           /\ heard = Some({})
           /\ EditorIdle

NextReplay ==
    \/ \E clock \in Instants : clock > now /\ Tick(clock)
    \/ Load(DiskOk(file), now)

SpecReplay == InitReplay /\ [][NextReplay]_vars

\* ---------------------------------------------------------- schedule editor
\* The editor (json_editor.py) is a program of its own with a Tk event loop;
\* the board is not part of its state.  Time is counted in steps of a third
\* of the delay, up to EditorEndMs.
DelayMs == 1200
EditorStepMs == DelayMs \div 3
EditorEndMs == 4 * DelayMs
AfterIds == 1..3

\* widget.after(delay, f): Tk hands out an identifier that names no pending
\* timer (and is not the one the Debouncer still holds)
FreshIds(ts, held) == {i \in AfterIds : (\A t \in ts : t[1] # i) /\ held # Some(i)}

\* mutant: after_cancel leaves the timer pending
AfterCancel_Noop(ts, id) == ts

\* widget.after_cancel(id): the timer named id is no longer pending; no
\* effect for an id that names none
AfterCancel(ts, id) == {t \in ts : t[1] # id}

\* Debouncer.trigger
Trigger ==
    /\ ms + DelayMs <= EditorEndMs
    /\ \E ts \in {IF IsNone(after_id) THEN timers ELSE AfterCancel(timers, Val(after_id))} :
       \E id \in FreshIds(ts, after_id) :
          /\ timers' = ts \cup {<<id, ms + DelayMs>>}
          /\ after_id' = Some(id)
    /\ last_trigger' = Some(ms)
    /\ saves' = 0
    /\ burst' = IF saves > 0 THEN 1 ELSE Cap(burst + 1)
    /\ lastOp' = "trigger"
    /\ UNCHANGED ms
    /\ UNCHANGED boardVars

\* a timer that is due fires: Debouncer._run, then the callback
\* (_auto_save_if_possible, whose exceptions _run swallows)
Run ==
    /\ \E t \in timers :
          /\ ms >= t[2]
          /\ timers' = timers \ {t}
    /\ after_id' = None
    /\ saves' = Cap(saves + 1)
    /\ lastOp' = "run"
    /\ UNCHANGED <<ms, last_trigger, burst>>
    /\ UNCHANGED boardVars

\* time passes in the event loop
Wait ==
    /\ ms + EditorStepMs <= EditorEndMs
    /\ ms' = ms + EditorStepMs
    /\ lastOp' = "wait"
    /\ UNCHANGED <<after_id, timers, last_trigger, saves, burst>>
    /\ UNCHANGED boardVars

InitEditor ==
    /\ EditorIdle
    /\ thresholds = DefaultThresholds
    /\ all_items = << >>
    /\ model = << >>
    /\ notice_active = FALSE
    /\ end_blink = FALSE
    /\ file = << >>
    /\ found = NotRead
    /\ now = T0
    /\ lastOp = "load"
    /\ placed = << >>
    /\ firedNow = {}
    /\ removedNow = {}
    /\ addedNow = << >>
    /\ heard = None

NextEditor == Trigger \/ Run \/ Wait

\* the Tk main loop keeps running: time passes, and a timer that is due is
\* served
SpecEditor ==
    InitEditor /\ [][NextEditor]_vars /\ WF_editorVars(Wait) /\ WF_editorVars(Run)

\* ----------------------------------------------------------------- claims
WindowIds == {model[k].id : k \in DOMAIN model}
Regular(e) == ~e.flags.terminal_here /\ ~e.flags.pass_through
\* the entry was evaluated by the last handler run, a tick
Evaluated(e) == lastOp = "tick" /\ ~IsNone(e.last_delta)
\* seconds from 00:00 to the record's departure, delay included
EffectiveTimeOf(item) ==
    HourMinute(item.time)[1] * 3600 + HourMinute(item.time)[2] * 60 + DelaySecs(item)
ShowableAt(i, clock) == ~all_items[i].shown /\ all_items[i].time >= clock - GraceSecs

\* C1: the window never holds more than 6 entries, never holds a schedule
\* entry twice, and between two loads no schedule entry is promoted more
\* than once, removed or not.
C1_WindowBoundedShownOnce ==
    /\ Len(model) <= WindowSize
    /\ \A k, l \in DOMAIN model : model[k].id = model[l].id => k = l
    /\ \A i \in DOMAIN placed : placed[i] <= 1

\* C1 witness: a schedule longer than the window, with room in the window and
\* an entry that was shown, has left the window and is still inside the grace.
C1_Witness ==
    /\ Len(all_items) > WindowSize
    /\ Len(model) < WindowSize
    /\ \E i \in DOMAIN all_items :
          /\ all_items[i].shown
          /\ i \notin WindowIds
          /\ all_items[i].time >= now - GraceSecs

\* C2: the store is in ascending effective_time order and every entry promoted
\* by a handler run was, when promoted, the first entry not shown with
\* effective_time >= now - 60 s; right after the load of a schedule with
\* strictly increasing future times the window shows its first six in order.
C2_FillTakesEarliest ==
    /\ \A i, j \in DOMAIN all_items : i < j => all_items[i].time <= all_items[j].time
    /\ \A k \in DOMAIN addedNow :
          \A j \in 1..(addedNow[k] - 1) :
              \/ all_items[j].time < now - GraceSecs
              \/ all_items[j].shown /\ \A l \in k..Len(addedNow) : addedNow[l] # j
    /\ ( /\ lastOp = "load"
         /\ \A i \in DOMAIN all_items : all_items[i].time >= now
         /\ \A i, j \in DOMAIN all_items : i < j => all_items[i].time < all_items[j].time )
       => /\ Len(model) = IF Len(all_items) < WindowSize THEN Len(all_items) ELSE WindowSize
          /\ \A k \in DOMAIN model : model[k].time = all_items[k].time /\ model[k].id = k

\* C2 witness: a file whose records are not in time order has just been
\* loaded and both records are in the window.
C2_Witness ==
    /\ lastOp = "load"
    /\ Len(file) = 2
    /\ EffectiveTimeOf(file[1]) > EffectiveTimeOf(file[2])
    /\ Len(model) = 2
    /\ model[1].time < model[2].time
    /\ model[1].time >= now

PlayedFlag(e, c) ==
    IF c = CueArrival THEN e.played.arrival
    ELSE IF c = CuePreApproach THEN e.played.pre77
    ELSE IF c = CueDeparted THEN e.played.departed
    ELSE e.played.pass

\* C3: no row has had a cue of one kind emitted twice, and the played flag of
\* every cue emitted for a row is still set.
C3_CueAtMostOnce ==
    \A k \in DOMAIN model : \A c \in Cues :
        /\ model[k].emitted[c] <= 1
        /\ model[k].emitted[c] = 1 => PlayedFlag(model[k], c)

\* C3 witness: the arrival cue of a row has been emitted and a later tick saw
\* its delta above the arrival threshold again.
C3_Witness ==
    \E k \in DOMAIN model :
        /\ model[k].emitted[CueArrival] = 1
        /\ Evaluated(model[k])
        /\ Val(model[k].last_delta) > ArrivalBeforeSecs

\* C4: a tick that follows a tick with the same clock value changes no
\* status, emits no cue and removes no entry.
C4_TickIdempotent ==
    [][(lastOp = "tick" /\ lastOp' = "tick" /\ now' = now)
          => /\ firedNow' = {}
             /\ removedNow' = {}
             /\ Len(model') = Len(model)
             /\ \A k \in DOMAIN model : model'[k].row.status = model[k].row.status]_vars

\* the tier of the status ladder for a delta >= 0, in the regular and the
\* terminal vocabulary
TierOf(delta, delayed, terminal) ==
    IF delta <= 40 THEN (IF terminal THEN StTermStopped ELSE StStopped)
    ELSE IF delta <= 57 THEN (IF terminal THEN StTermArrived ELSE StArrived)
    ELSE IF delta <= 77 THEN (IF terminal THEN StTermApproaching ELSE StApproaching)
    ELSE IF delayed THEN StDelayed ELSE StOnTime

\* C5: after a tick, every regular or terminal-here row the tick evaluated
\* with delta = time + delay_secs - now >= 0 shows the tier of that delta:
\* stopped up to 40, arrived up to 57, approaching up to 77, else on time
\* (delay_secs = 0) or delayed (delay_secs > 0).
C5_StatusLadder ==
    \A k \in DOMAIN model :
        LET e == model[k]
            delta == EffectiveTimeOf(e.raw) - now
        IN (Evaluated(e) /\ delta >= 0 /\ ~e.raw.pass_through)
              => e.row.status = TierOf(delta, DelaySecs(e.raw) > 0, e.raw.type = TerminalType)

\* C5 witness: at 08:00:00 a tick has evaluated a regular 08:00 train running
\* 600 s late: delta 600, delayed.
C5_Witness ==
    /\ lastOp = "tick"
    /\ now = T0
    /\ \E k \in DOMAIN model :
          /\ Regular(model[k]) /\ DelaySecs(model[k].raw) = 600
          /\ model[k].raw.time = TimeText(8, 0)
          /\ Evaluated(model[k]) /\ model[k].row.status = StDelayed

\* C5 witness of the lower tiers: at 08:00:00 a tick has evaluated a regular
\* 08:00 train (delta 0, stopped) or a regular 08:01 train (delta 60,
\* approaching); at 07:59:19 a terminal-here 08:00 train (delta 41, arrived).
C5_WitnessStopped ==
    /\ lastOp = "tick" /\ now = T0
    /\ \E k \in DOMAIN model :
          /\ Regular(model[k]) /\ model[k].time = T0
          /\ Evaluated(model[k]) /\ model[k].row.status = StStopped

C5_WitnessApproaching ==
    /\ lastOp = "tick" /\ now = T0
    /\ \E k \in DOMAIN model :
          /\ Regular(model[k]) /\ model[k].time = T0 + 60
          /\ Evaluated(model[k]) /\ model[k].row.status = StApproaching

C5_WitnessTerminalArrived ==
    /\ lastOp = "tick" /\ now = T0 - 41
    /\ \E k \in DOMAIN model :
          /\ model[k].flags.terminal_here /\ model[k].time = T0
          /\ Evaluated(model[k]) /\ model[k].row.status = StTermArrived

\* clock of the first tick that evaluated the row at or after time + 60 s,
\* when this tick (at clock) is counted in
FirstPast(e, clock) == IF IsNone(e.first_past) THEN clock ELSE Val(e.first_past)

\* C6: at every tick, a terminal-here row (type kaisou) is removed exactly
\* when now >= time + 60 s and remove_after_secs have elapsed since the first
\* tick that evaluated it with now >= time + 60 s; a row that stays has
\* dwell_until = time + 60 s once a tick saw delta <= 0, shows
\* 'stopped (terminal)' while delta < 0 and now < time + 60 s, and 'departed'
\* from now >= time + 60 s on.
C6_TerminalDwell ==
    [][lastOp' = "tick" =>
          \A k \in DOMAIN model :
              LET e == model[k]
                  due == /\ now' >= e.time + 60
                         /\ now' - FirstPast(e, now') >= RemoveAfterSecs
              IN e.flags.terminal_here =>
                    /\ (e.id \in removedNow') <=> due
                    /\ \A l \in DOMAIN model' :
                          (model'[l].id = e.id) =>
                              /\ (e.time - now' <= 0) =>
                                     model'[l].dwell_until = Some(e.time + 60)
                              /\ (e.time - now' < 0 /\ now' < e.time + 60) =>
                                     model'[l].row.status = StTermStopped
                              /\ (now' >= e.time + 60) =>
                                     model'[l].row.status = StDeparted]_vars

\* C6 witness: a terminal-here row has been removed 10 s after the end of
\* its dwell.
C6_Witness ==
    /\ lastOp = "tick"
    /\ \E i \in removedNow :
          /\ all_items[i].raw.type = TerminalType
          /\ now = all_items[i].time + DwellSecs + RemoveAfterSecs

PassOnly(e) == e.flags.pass_through /\ ~e.flags.terminal_here

\* C7: after a tick, the last pass-through row of the window, when evaluated
\* with -pass_remove_after_secs < delta < 0, shows 'passed' with the platform
\* notice active; and a tick that removed a pass-through row and left no
\* pass-through row in the window leaves the platform notice inactive.
C7_PassNotice ==
    lastOp = "tick" =>
        /\ \A k \in DOMAIN model :
              LET e == model[k]
              IN ( /\ PassOnly(e)
                   /\ \A l \in DOMAIN model : l > k => ~PassOnly(model[l])
                   /\ Evaluated(e)
                   /\ e.time - now < 0 /\ e.time - now > -PassRemoveAfterSecs )
                    => e.row.status = StPassed /\ notice_active
        /\ ( /\ \E i \in removedNow :
                   all_items[i].raw.pass_through /\ all_items[i].raw.type # TerminalType
             /\ \A k \in DOMAIN model : ~PassOnly(model[k]) )
              => ~notice_active

\* C8: when no schedule entry is left to show (each one is out of the window
\* and is shown or older than now - 60 s), as after the load of an empty or
\* all-past schedule, the window is empty and the end-of-service text is on.
C8_ServiceEnded ==
    (\A i \in DOMAIN all_items :
        i \notin WindowIds /\ (all_items[i].shown \/ all_items[i].time < now - GraceSecs))
       => model = << >> /\ end_blink

\* C8 witness: every entry of a non-empty schedule has been shown and removed.
C8_Witness ==
    /\ lastOp = "tick"
    /\ Len(all_items) > 0
    /\ model = << >>
    /\ \A i \in DOMAIN all_items : all_items[i].shown

\* C8 witness of the load case: a schedule whose entries are all older than
\* now - 60 s has just been loaded.
C8_WitnessPastLoad ==
    /\ lastOp = "load"
    /\ Len(all_items) > 0
    /\ \A i \in DOMAIN all_items : all_items[i].time < now - GraceSecs

\* C9: after every load and every tick the window holds 6 entries or no
\* entry with shown = false and effective_time >= now - 60 s remains.
C9_WindowFilled ==
    \/ Len(model) = WindowSize
    \/ \A i \in DOMAIN all_items : ~ShowableAt(i, now)

\* C9 witness: a tick that removed nothing has promoted an entry.
C9_Witness ==
    /\ lastOp = "tick"
    /\ removedNow = {}
    /\ addedNow # << >>

\* C9 witness: a tick that removed entries has topped the window up to 6.
C9_WitnessRefill ==
    /\ lastOp = "tick"
    /\ removedNow # {}
    /\ addedNow # << >>
    /\ Len(model) = WindowSize

Count(seq, x) == Cardinality({k \in DOMAIN seq : seq[k] = x})
FreshEntry(e) ==
    /\ e.played = [pre77 |-> FALSE, arrival |-> FALSE, departed |-> FALSE, pass |-> FALSE]
    /\ IsNone(e.dwell_until)
    /\ IsNone(e.post_depart_at)
    /\ IsNone(e.last_delta)

\* C10: right after a load the store holds exactly the records of the loaded
\* list, each with time + delay_secs, the window holds the first min(6, k) of
\* the k entries with effective_time >= now - 60 s in store order, shown is
\* true for exactly those, and every row is new (no played flag, no
\* dwell_until, no post_depart_at, no last_delta).
C10_LoadRebuilds ==
    lastOp = "load" =>
        LET ok == {i \in DOMAIN all_items : all_items[i].time >= now - GraceSecs}
            n == IF Cardinality(ok) < WindowSize THEN Cardinality(ok) ELSE WindowSize
        IN /\ Len(all_items) = Len(file)
           /\ \A r \in Records \cup {file[k] : k \in DOMAIN file} :
                 Count(file, r) = Count([i \in DOMAIN all_items |-> all_items[i].raw], r)
           /\ \A i \in DOMAIN all_items :
                 all_items[i].time = EffectiveTimeOf(all_items[i].raw)
           /\ Len(model) = n
           /\ \A k \in DOMAIN model :
                 /\ model[k].id \in ok
                 /\ Cardinality({i \in ok : i < model[k].id}) = k - 1
                 /\ model[k].raw = all_items[model[k].id].raw
                 /\ model[k].time = all_items[model[k].id].time
                 /\ FreshEntry(model[k])
           /\ \A i \in DOMAIN all_items : all_items[i].shown <=> i \in WindowIds

\* C10 witness: a reload that followed ticks (the platform notice is still
\* active) has rebuilt a full window from a schedule longer than the window.
C10_Witness ==
    /\ lastOp = "load"
    /\ notice_active
    /\ Len(all_items) > WindowSize
    /\ Len(model) = WindowSize

\* the handler run that just ended read the schedule path
Reloaded == lastOp \in {"load", "skip"}
StoreRecords == [i \in DOMAIN all_items |-> all_items[i].raw]
IsMapping(item) == item.mapping
\* today's 00:00:00
Midnight(clock) == (clock \div DaySecs) * DaySecs
\* a time text that is not hh:mm with hh in 00..23 and mm in 00..59
MalformedTime(hhmm) ==
    \/ Len(hhmm) # 2
    \/ \E k \in DOMAIN hhmm : ~hhmm[k].numeric
    \/ hhmm[1].n \notin 0..23
    \/ hhmm[2].n \notin 0..59
BadDelay(item) == IsNone(item.delay_secs) \/ ~Val(item.delay_secs).numeric

\* C11: a reload that finds the schedule file absent or unreadable (it cannot
\* be opened or parsed) changes neither the store nor the window.
C11_UnreadableReloadNoOp ==
    [][(lastOp' \in {"load", "skip"} /\ found'.state \in {"absent", "garbled"})
          => all_items' = all_items /\ model' = model]_vars

\* C12: after the load of a list that holds an item that is not a mapping,
\* the store holds every other item of the list, in time order, as after the
\* load of the list without that item.
C12_NonMappingSkipped ==
    ( /\ lastOp = "load" /\ found.state = "ok"
      /\ \E k \in DOMAIN found.items : ~found.items[k].mapping
      /\ \A k \in DOMAIN found.items :
            found.items[k].mapping => ~ItemRaises(found.items[k]) )
       => /\ Len(all_items) = Len(SelectSeq(found.items, IsMapping))
          /\ \A k \in DOMAIN found.items :
                found.items[k].mapping =>
                    Count(StoreRecords, found.items[k]) = Count(found.items, found.items[k])

\* C13: after the load of a list of mappings with well-formed times in which
\* an item has no delay_secs or a non-numeric one, every item of the list is
\* in the store, and such an item has effective_time = parsed time and, when
\* it is in the window, is_delayed false.
C13_BadDelayIsZero ==
    ( /\ lastOp = "load" /\ found.state = "ok"
      /\ \A k \in DOMAIN found.items :
            found.items[k].mapping /\ ~MalformedTime(found.items[k].time)
      /\ \E k \in DOMAIN found.items : BadDelay(found.items[k]) )
       => /\ Len(all_items) = Len(found.items)
          /\ \A k \in DOMAIN found.items :
                Count(StoreRecords, found.items[k]) = Count(found.items, found.items[k])
          /\ \A i \in DOMAIN all_items :
                BadDelay(all_items[i].raw) =>
                    all_items[i].time =
                        Midnight(now) + all_items[i].raw.time[1].n * 3600
                                      + all_items[i].raw.time[2].n * 60
          /\ \A k \in DOMAIN model :
                BadDelay(model[k].raw) => ~model[k].flags.is_delayed

\* C14: after the load of a list of mappings with numeric delays in which an
\* item has a malformed time text (wrong shape, non-numeric fields, hour or
\* minute out of range), every item of the list is in the store and such an
\* item has time 00:00 (plus its delay).
C14_MalformedTimeIsMidnight ==
    ( /\ lastOp = "load" /\ found.state = "ok"
      /\ \A k \in DOMAIN found.items :
            found.items[k].mapping /\ ~DelayRaises(found.items[k])
      /\ \E k \in DOMAIN found.items : MalformedTime(found.items[k].time) )
       => /\ Len(all_items) = Len(found.items)
          /\ \A k \in DOMAIN found.items :
                Count(StoreRecords, found.items[k]) = Count(found.items, found.items[k])
          /\ \A i \in DOMAIN all_items :
                MalformedTime(all_items[i].raw.time) =>
                    all_items[i].time = Midnight(now) + DelaySecs(all_items[i].raw)

\* C15: every state a handler run starts from is the state a whole handler run
\* left: the store is in time order and every window row shows a store entry
\* marked shown, with that entry's record and time; after a load (one that
\* raised half way included) every row is a new row of the new store; after
\* a tick every row the tick did not promote was evaluated at the tick's clock.
C15_HandlersAtomic ==
    /\ \A i, j \in DOMAIN all_items : i < j => all_items[i].time <= all_items[j].time
    /\ \A k \in DOMAIN model :
          /\ model[k].id \in DOMAIN all_items
          /\ all_items[model[k].id].shown
          /\ all_items[model[k].id].raw = model[k].raw
          /\ all_items[model[k].id].time = model[k].time
    /\ lastOp = "load" => \A k \in DOMAIN model : FreshEntry(model[k])
    /\ lastOp = "tick" =>
          \A k \in DOMAIN model :
              (\A l \in DOMAIN addedNow : addedNow[l] # model[k].id)
                 => model[k].last_delta = Some(model[k].time - now)

\* C15 witness: a reload of a list whose second item raises has ended while
\* the platform notice of the window before it is still active.
C15_Witness ==
    /\ lastOp = "load" /\ found.state = "ok"
    /\ FirstRaising(found.items) > 1
    /\ notice_active
    /\ Len(model) > 0

\* C15 witness of the tick: a tick has evaluated six rows and removed none.
C15_WitnessTick ==
    /\ lastOp = "tick"
    /\ Len(model) = WindowSize
    /\ removedNow = {} /\ addedNow = << >>

\* C16: after every load and every tick, the first row of a window that is
\* not empty, and no other row, carries the next-departure badge.
C16_NextBadgeOnFirst ==
    \A k \in DOMAIN model : model[k].row.next_badge <=> k = 1

\* C16 witness: a tick has removed the first row and the row that moved up
\* to its place carries the badge.
C16_Witness ==
    /\ lastOp = "tick"
    /\ removedNow # {}
    /\ model # << >>
    /\ \A l \in DOMAIN addedNow : addedNow[l] # model[1].id
    /\ model[1].row.next_badge

\* C17: after every fill, a row shows the last-train badge exactly when its
\* record sets last or it is the last row of the window and no entry with
\* shown = false and effective_time >= now remains; a row shows the
\* first-train badge exactly when its record sets first.
C17_LastTrainBadge ==
    \A k \in DOMAIN model :
        /\ model[k].row.last_badge <=>
              \/ model[k].raw.last
              \/ /\ k = Len(model)
                 /\ ~\E i \in DOMAIN all_items :
                        ~all_items[i].shown /\ all_items[i].time >= now
        /\ model[k].row.first_badge <=> model[k].raw.first

\* C17 witness: the first of two rows shows the badge its record sets and the
\* second one, the last of the schedule, is tagged.
C17_Witness ==
    /\ Len(model) = 2
    /\ model[1].raw.last /\ model[1].row.last_badge
    /\ ~model[2].raw.last /\ model[2].row.last_badge

\* C17 witness: the last row of a full window is not tagged, an entry of the
\* schedule is still to come.
C17_WitnessNotTagged ==
    /\ Len(model) = WindowSize
    /\ ~model[WindowSize].row.last_badge
    /\ \E i \in DOMAIN all_items : ~all_items[i].shown /\ all_items[i].time >= now

\* C17 witness: a row shows the first-train badge of its record.
C17_WitnessFirst ==
    \E k \in DOMAIN model : model[k].raw.first /\ model[k].row.first_badge

\* C18: a tick removes a regular row exactly when delta <= -remove_after_secs
\* and a pass-through row (not terminal-here) exactly when
\* delta <= -pass_remove_after_secs; a row it removes gets no status, no cue
\* and no last_delta from that tick.
C18_RemovalTiming ==
    [][lastOp' = "tick" =>
          \A k \in DOMAIN model :
              LET e == model[k]
                  delta == e.time - now'
              IN /\ Regular(e) =>
                       ((e.id \in removedNow') <=> delta <= -thresholds.remove_after_secs)
                 /\ PassOnly(e) =>
                       ((e.id \in removedNow') <=> delta <= -thresholds.pass_remove_after_secs)
                 /\ (e.id \in removedNow') =>
                       /\ \A c \in Cues : <<e.id, c>> \notin firedNow'
                       /\ EvalEntry(e, now').entry.row.status = e.row.status
                       /\ EvalEntry(e, now').entry.last_delta = e.last_delta]_vars

\* C18 witness: with pass_remove_after_secs = 9 and remove_after_secs = 10 a
\* tick has removed a pass-through row at delta = -9.
C18_Witness ==
    /\ lastOp = "tick"
    /\ thresholds.pass_remove_after_secs < thresholds.remove_after_secs
    /\ \E i \in removedNow :
          /\ all_items[i].raw.pass_through /\ all_items[i].raw.type # TerminalType
          /\ all_items[i].time - now = -9

\* C18 witness: a tick has removed a regular row at delta = -10.
C18_WitnessRegular ==
    /\ lastOp = "tick"
    /\ \E i \in removedNow :
          /\ ~all_items[i].raw.pass_through /\ all_items[i].raw.type # TerminalType
          /\ all_items[i].time - now = -10

\* C19 as stated: every tick that sees a regular row with delta < 0 whose
\* departed cue has not fired fires it; the cue never fires for a
\* terminal-here or a pass-through row.
C19_DepartedCueOnFirstNegative ==
    [][lastOp' = "tick" =>
          \A k \in DOMAIN model :
              LET e == model[k]
                  delta == e.time - now'
              IN /\ (Regular(e) /\ delta < 0 /\ ~e.played.departed)
                       => <<e.id, CueDeparted>> \in firedNow'
                 /\ ~Regular(e) => <<e.id, CueDeparted>> \notin firedNow']_vars

\* C19 amended: a tick fires the departed cue of a regular row exactly when
\* it sees -remove_after_secs < delta < 0 and the cue has not fired before; a
\* row first seen with delta <= -remove_after_secs is removed without the
\* cue; the cue never fires for a terminal-here or a pass-through row, and
\* never twice for a row.
C19_DepartedCueUnlessRemoved ==
    [][lastOp' = "tick" =>
          /\ \A k \in DOMAIN model :
                LET e == model[k]
                    delta == e.time - now'
                IN (<<e.id, CueDeparted>> \in firedNow') <=>
                      /\ Regular(e)
                      /\ delta < 0 /\ delta > -RemoveAfterSecs
                      /\ ~e.played.departed
          /\ \A l \in DOMAIN model' : model'[l].emitted[CueDeparted] <= 1]_vars

\* C19 witness: a tick has fired the departed cue of a row at delta = -9.
C19_Witness ==
    /\ lastOp = "tick"
    /\ \E p \in firedNow : p[2] = CueDeparted /\ all_items[p[1]].time - now = -9

\* C20: a tick that sees a pass-through row with a previous delta > 0 and a
\* delta <= 0 (0 or negative, the row not yet due for removal) fires the pass
\* cue, if it has not fired, and records it in played.
C20_PassCueAtCrossing ==
    [][lastOp' = "tick" =>
          \A k \in DOMAIN model :
              LET e == model[k]
                  delta == e.time - now'
              IN ( /\ PassOnly(e)
                   /\ ~IsNone(e.last_delta) /\ Val(e.last_delta) > 0
                   /\ delta <= 0 /\ delta > -PassRemoveAfterSecs
                   /\ ~e.played.pass )
                    => /\ <<e.id, CuePass>> \in firedNow'
                       /\ \A l \in DOMAIN model' :
                             model'[l].id = e.id => model'[l].played.pass]_vars

\* C21: a tick fires the arrival cue (the pre-approach cue) of a row it does
\* not remove exactly when the row's previous delta is above
\* arrival_before_secs (approach_before_secs), its delta now is at or below
\* it, and the cue is not in played; so never at the first tick that
\* evaluates the row.
C21_CueAtDownwardCrossing ==
    [][lastOp' = "tick" =>
          \A k \in DOMAIN model :
              LET e == model[k]
                  delta == e.time - now'
              IN e.id \notin removedNow' =>
                    /\ (<<e.id, CueArrival>> \in firedNow') <=>
                          /\ ~IsNone(e.last_delta)
                          /\ Val(e.last_delta) > ArrivalBeforeSecs
                          /\ delta <= ArrivalBeforeSecs
                          /\ ~e.played.arrival
                    /\ (<<e.id, CuePreApproach>> \in firedNow') <=>
                          /\ ~IsNone(e.last_delta)
                          /\ Val(e.last_delta) > ApproachBeforeSecs
                          /\ delta <= ApproachBeforeSecs
                          /\ ~e.played.pre77]_vars

\* C22: the arrival cue is never fired for a pass-through row (pass-through
\* and not terminal-here: its ladder has no 'arrived' tier).
C22_NoArrivalCueForPass ==
    lastOp = "tick" =>
        \A k \in DOMAIN model :
            PassOnly(model[k]) => <<model[k].id, CueArrival>> \notin firedNow

\* C23: after a tick that evaluated a pass-through row with
\* 0 <= delta <= approach_before_secs the platform notice is active, whatever
\* the other rows of the window are.
C23_NoticeWhileApproaching ==
    lastOp = "tick" =>
        \A k \in DOMAIN model :
            LET e == model[k]
            IN ( /\ PassOnly(e) /\ Evaluated(e)
                 /\ 0 <= e.time - now /\ e.time - now <= ApproachBeforeSecs )
                  => notice_active

\* C24: whenever the platform notice is active the window holds a
\* pass-through row with -pass_remove_after_secs < delta <= approach_before_secs;
\* a row that a tick removed or a reload discarded does not leave it active.
C24_NoticeHasItsTrain ==
    notice_active =>
        \E k \in DOMAIN model :
            /\ PassOnly(model[k])
            /\ -PassRemoveAfterSecs < model[k].time - now
            /\ model[k].time - now <= ApproachBeforeSecs

\* C25: a tick gives an evaluated pass-through row that is not terminal-here
\* 'approaching' when 0 <= delta <= approach_before_secs, 'on time' or
\* 'delayed' (by is_delayed) when delta > approach_before_secs and 'passed'
\* when delta < 0, never 'stopped' or 'arrived'; the last such row leaves the
\* notice active exactly when its delta <= approach_before_secs; this under
\* every value of pass_before_secs.
C25_PassThroughLadder ==
    lastOp = "tick" =>
        \A k \in DOMAIN model :
            LET e == model[k]
                delta == e.time - now
            IN (PassOnly(e) /\ Evaluated(e)) =>
                  /\ e.row.status =
                        IF delta < 0 THEN StPassed
                        ELSE IF delta <= thresholds.approach_before_secs THEN StApproaching
                        ELSE IF e.flags.is_delayed THEN StDelayed ELSE StOnTime
                  /\ e.row.status \notin {StStopped, StArrived}
                  /\ (\A l \in DOMAIN model : l > k => ~(PassOnly(model[l]) /\ Evaluated(model[l])))
                        => (notice_active <=> delta <= thresholds.approach_before_secs)

\* C25 witness: with pass_before_secs = 20 a tick has left a pass-through row
\* 'approaching' at delta = 57, inside the regular 'arrived' window and
\* outside pass_before_secs, with the notice active.
C25_Witness ==
    /\ lastOp = "tick"
    /\ thresholds.pass_before_secs = 20
    /\ notice_active
    /\ \E k \in DOMAIN model :
          /\ PassOnly(model[k])
          /\ model[k].time - now = 57
          /\ model[k].row.status = StApproaching

\* C25 witness: with pass_before_secs = 100 a tick has left a pass-through
\* row 'on time' at delta = 78, inside pass_before_secs, with the notice
\* inactive.
C25_WitnessWidePass ==
    /\ lastOp = "tick"
    /\ thresholds.pass_before_secs = 100
    /\ ~notice_active
    /\ \E k \in DOMAIN model :
          /\ PassOnly(model[k]) /\ Evaluated(model[k])
          /\ model[k].time - now = 78
          /\ model[k].row.status = StOnTime

\* C26: for a terminal-here row a tick sets dwell_until once, to
\* effective_time + 60 s, at the first tick with delta <= 0, and
\* post_depart_at once; later ticks change neither; a tick that removes the
\* row has now >= effective_time + 60 s + remove_after_secs, so the rule
\* 'remove once delta <= -remove_after_secs' never removes it.
C26_TerminalDwellOnce ==
    [][lastOp' = "tick" =>
          \A k \in DOMAIN model :
              LET e == model[k]
              IN e.flags.terminal_here =>
                    /\ (e.id \in removedNow') =>
                          /\ now' >= e.time + 60 + thresholds.remove_after_secs
                          /\ ~IsNone(e.dwell_until)
                    /\ \A l \in DOMAIN model' :
                          model'[l].id = e.id =>
                             /\ ~IsNone(e.dwell_until) =>
                                   model'[l].dwell_until = e.dwell_until
                             /\ IsNone(e.dwell_until) =>
                                   model'[l].dwell_until =
                                      IF e.time - now' <= 0 THEN Some(e.time + 60) ELSE None
                             /\ ~IsNone(e.post_depart_at) =>
                                   model'[l].post_depart_at = e.post_depart_at
                             /\ (IsNone(e.post_depart_at) /\ ~IsNone(model'[l].post_depart_at))
                                   => /\ model'[l].post_depart_at = Some(now')
                                      /\ now' >= e.time + 60]_vars

\* C26 witness: a tick has kept a terminal-here row in the window at
\* delta <= -remove_after_secs, with the dwell_until and the post_depart_at
\* that earlier ticks gave it.
C26_Witness ==
    /\ lastOp = "tick"
    /\ \E k \in DOMAIN model :
          /\ model[k].flags.terminal_here
          /\ model[k].time - now <= -thresholds.remove_after_secs
          /\ model[k].dwell_until = Some(model[k].time + 60)
          /\ ~IsNone(model[k].post_depart_at)
          /\ Val(model[k].post_depart_at) < now

\* C26 witness: a tick has removed a terminal-here row at
\* now = effective_time + 60 s + remove_after_secs.
C26_WitnessRemoved ==
    /\ lastOp = "tick"
    /\ \E i \in removedNow :
          /\ all_items[i].raw.type = TerminalType
          /\ now = all_items[i].time + 60 + thresholds.remove_after_secs

\* the store is in ascending order of effective time
StoreSorted ==
    \A i, j \in DOMAIN all_items : i < j => all_items[i].time <= all_items[j].time

\* after a load every effective time is the record's hh:mm of that day plus
\* its delay_secs
StoreTimesFromRecords ==
    lastOp = "load" =>
        \A i \in DOMAIN all_items :
            all_items[i].time = Midnight(now) + EffectiveTimeOf(all_items[i].raw)

\* a tick leaves the records, their order and their effective times alone and
\* never clears a shown flag
TickKeepsStore ==
    lastOp' = "tick" =>
        /\ DOMAIN all_items' = DOMAIN all_items
        /\ \A i \in DOMAIN all_items :
              /\ all_items'[i].raw = all_items[i].raw
              /\ all_items'[i].time = all_items[i].time
              /\ all_items[i].shown => all_items'[i].shown

\* C27: after every load the store is sorted ascending by effective time =
\* parsed time + delay_secs; no tick reorders it or changes an effective
\* time; a tick changes the store only by setting shown flags from false to
\* true.
C27_StoreSortedAndKept ==
    /\ [](StoreSorted /\ StoreTimesFromRecords)
    /\ [][TickKeepsStore]_vars

\* C27 witness: a load has put a record scheduled 08:00 with a delay of 600 s
\* after a record scheduled 08:01, and a tick has since set a shown flag.
C27_Witness ==
    /\ lastOp = "tick"
    /\ addedNow # << >>
    /\ \E i, j \in DOMAIN all_items :
          /\ i < j
          /\ HourMinute(all_items[i].raw.time) = <<8, 1>>
          /\ HourMinute(all_items[j].raw.time) = <<8, 0>>
          /\ DelaySecs(all_items[j].raw) = 600

\* C27 witness: a load has sorted a file that lists 08:01 before 08:00.
C27_WitnessReordered ==
    /\ lastOp = "load"
    /\ found.state = "ok" /\ Len(found.items) = 2
    /\ HourMinute(found.items[1].time) = <<8, 1>>
    /\ HourMinute(found.items[2].time) = <<8, 0>>
    /\ Len(all_items) = 2
    /\ all_items[1].raw = found.items[2]
    /\ all_items[2].raw = found.items[1]

\* today's hh:mm:00 of a record
TodayAt(item, clock) ==
    Midnight(clock) + HourMinute(item.time)[1] * 3600 + HourMinute(item.time)[2] * 60

\* C28: for every valid hh:mm and every now the parsed time of a record is
\* today's hh:mm:00 when that is not earlier than now - 12 h and that
\* instant plus 24 h otherwise; it is never earlier than now - 12 h and never
\* later than now + 24 h.  (The records of SpecDay have no delay, so the
\* stored time is the parsed one.)
C28_DayRollover ==
    lastOp = "load" =>
        \A i \in DOMAIN all_items :
            LET today == TodayAt(all_items[i].raw, now)
            IN /\ DelaySecs(all_items[i].raw) = 0
               /\ all_items[i].time =
                     IF today >= now - 43200 THEN today ELSE today + 86400
               /\ all_items[i].time >= now - 43200
               /\ all_items[i].time <= now + 86400

\* C28 witness: 08:00 parsed at 20:00:01 is 08:00 of the next day.
C28_Witness ==
    /\ lastOp = "load"
    /\ now = Midnight(now) + 72001
    /\ Len(all_items) = 1
    /\ HourMinute(all_items[1].raw.time) = <<8, 0>>
    /\ all_items[1].time = Midnight(now) + 86400 + 8 * 3600

\* C28 witness: 08:00 parsed at 20:00:00 is 08:00 of the same day, exactly
\* twelve hours back.
C28_WitnessSameDay ==
    /\ lastOp = "load"
    /\ now = Midnight(now) + 72000
    /\ Len(all_items) = 1
    /\ HourMinute(all_items[1].raw.time) = <<8, 0>>
    /\ all_items[1].time = now - 43200

\* C29: under a clock that never goes back the window is in non-decreasing
\* order of effective time, so the row at index 0, tagged 'next departure',
\* has the smallest effective time of the window, also after rows left the
\* window out of order.
C29_WindowOrdered ==
    /\ \A k, l \in DOMAIN model : k < l => model[k].time <= model[l].time
    /\ model # << >> =>
          /\ model[1].row.next_badge
          /\ \A l \in DOMAIN model : model[1].time <= model[l].time

\* C29 witness: a tick has removed regular rows while an earlier
\* terminal-here row stays at index 0, past its time, and the fill has put a
\* later train behind it.
C29_Witness ==
    /\ lastOp = "tick"
    /\ Len(model) >= 2
    /\ model[1].flags.terminal_here
    /\ model[1].time - now <= -thresholds.remove_after_secs
    /\ addedNow # << >>
    /\ \E i \in removedNow :
          /\ all_items[i].raw.type # TerminalType
          /\ all_items[i].time > model[1].time

\* C30: with ticks going on, the clock advancing and no reload, every entry
\* whose effective time is not earlier than the load time (in SpecTicks: every
\* entry) is placed into the window in the end; so no entry is ever left
\* unplaced with its effective time more than 60 s back, from where no later
\* tick can place it.
C30_EveryEntryPlaced ==
    \A i \in DOMAIN all_items :
        ~all_items[i].shown => all_items[i].time >= now - 60

\* schedule entries promoted by the last handler run
AddedIds == {addedNow[k] : k \in DOMAIN addedNow}

\* C31: at the end of every tick the status shown by every row of the
\* window, the rows added by that tick's fill included, is the status the
\* ladder gives to the row's delta; so no row with delta < 0 or with delta
\* inside the approach window shows "on time".
C31_StatusMatchesLadder ==
    lastOp = "tick" =>
        \A k \in DOMAIN model : model[k].row.status = StatusOf(model[k], now)

\* C32: the fill never promotes an entry whose removal condition holds
\* already: no entry that is neither pass-through nor terminal-here is added
\* with delta <= -remove_after_secs, no pass-through entry with
\* delta <= -pass_remove_after_secs.
C32_FillSkipsRemovable ==
    \A k \in DOMAIN model :
        model[k].id \in AddedIds /\ ~model[k].flags.terminal_here =>
            IF model[k].flags.pass_through
            THEN Delta(model[k], now) > -PassRemoveAfterSecs
            ELSE Delta(model[k], now) > -RemoveAfterSecs

\* the last handler run left the last row of the window tagged "last train"
\* because it found no unshown entry with time >= now
AutoTaggedLast ==
    /\ Len(model) > 0
    /\ ~AnyFuture(all_items, now)
    /\ model[Len(model)].row.last_badge

\* C33: once the last row of the window has been tagged "last train" because
\* no unshown future entry was found, no tick appends a further entry to the
\* window (until the next load).
C33_NoAppendAfterLastTag ==
    [][AutoTaggedLast /\ lastOp' = "tick" => addedNow' = << >>]_vars

\* C34: after every load and every tick the end-of-service text is on if and
\* only if the window is empty: an empty window never goes with an unshown
\* entry the fill would take at that clock value, and a window that is not
\* empty is never reported as ended.
C34_EndedIffEmpty ==
    /\ end_blink <=> model = << >>
    /\ model = << >> => \A i \in DOMAIN all_items : ~ShowableAt(i, now)

\* C34 witness: a tick has left the window empty and the text on, with an
\* entry of the schedule that was never shown and is older than the grace.
C34_Witness ==
    /\ lastOp = "tick"
    /\ model = << >>
    /\ end_blink
    /\ \E i \in DOMAIN all_items : ~all_items[i].shown

\* C34 witness: a tick has left rows in the window and the text off, with
\* no unshown entry at or after the clock.
C34_WitnessNotEnded ==
    /\ lastOp = "tick"
    /\ model # << >>
    /\ ~end_blink
    /\ ~AnyFuture(all_items, now)

\* C35: under a clock that never goes back, once the end-of-service text is
\* on, every later tick leaves it on and leaves the window empty (until the
\* next load).
C35_EndedStaysEnded ==
    [][end_blink /\ lastOp' = "tick" => end_blink' /\ model' = << >>]_vars

\* C35 witness: a tick has run on a board that had ended: it found the
\* window of a schedule that is not empty with no row, and left it so.
C35_Witness ==
    /\ lastOp = "tick"
    /\ Len(all_items) > 0
    /\ removedNow = {}
    /\ addedNow = << >>
    /\ model = << >>
    /\ end_blink

\* C36: with the ticks going on, the clock advancing and no reload, every row
\* of the window (regular, pass-through or terminal-here) is removed in the
\* end, and the board reaches the state where the window is empty and the
\* end-of-service text is on: from some tick on the window holds no row, so
\* every row that was in it has been removed, and the text is on.
C36_BoardDrains == <>[](model = << >> /\ end_blink)

\* C36 witness: the ticks have emptied the window of a schedule with a
\* terminal-here train that was shown, and the text is on.
C36_Witness ==
    /\ lastOp = "tick"
    /\ model = << >>
    /\ end_blink
    /\ \E i \in DOMAIN all_items :
          all_items[i].shown /\ all_items[i].raw.type = TerminalType

\* C37: across any sequence of ticks and reloads of the unchanged list, each
\* record fires each kind of cue at most once: no tick emits a cue that the
\* log holds already for the same entry of that list.
C37_CueOncePerRecord ==
    [][lastOp' = "tick" => firedNow' \cap Val(heard) = {}]_vars

TerminalPass(e) == e.flags.terminal_here /\ e.flags.pass_through
NotTerminalPass(e) == ~TerminalPass(e)

\* C38: at every tick a row that is both terminal-here (type kaisou) and
\* pass-through is removed exactly as a terminal-here row is (now >= time + 60 s
\* and remove_after_secs elapsed since the first tick that saw it so), never
\* by the pass_remove_after_secs rule; while it stays it shows the status a
\* terminal-here row without pass_through would show; and the platform notice
\* after the tick is what it would be had these rows not been in the window:
\* they neither switch it on nor off.
C38_TerminalPassIsTerminal ==
    [][lastOp' = "tick" =>
          /\ \A k \in DOMAIN model :
                LET e == model[k]
                    due == /\ now' >= e.time + 60
                           /\ now' - FirstPast(e, now') >= RemoveAfterSecs
                IN TerminalPass(e) =>
                      /\ (e.id \in removedNow') <=> due
                      /\ \A l \in DOMAIN model' :
                            (model'[l].id = e.id) =>
                                /\ model'[l].row.status =
                                      StatusOf([model'[l] EXCEPT !.flags.pass_through = FALSE],
                                               now')
                                /\ model'[l].row.status \notin
                                      {StPassed, StApproaching, StArrived, StStopped}
          /\ notice_active' =
                RefreshStatuses(SelectSeq(model, NotTerminalPass), notice_active, now').notice
          /\ (\A k \in DOMAIN model : ~PassOnly(model[k])) =>
                notice_active' = notice_active]_vars

\* C38 witness: a tick has kept a terminal-here pass-through row 10 s or more
\* past its time (where the pass-through rule would have removed it), showing
\* 'stopped (terminal)'.
C38_Witness ==
    /\ lastOp = "tick"
    /\ \E k \in DOMAIN model :
          /\ TerminalPass(model[k])
          /\ model[k].id \notin AddedIds
          /\ Delta(model[k], now) <= -PassRemoveAfterSecs
          /\ model[k].row.status = StTermStopped

\* C38 witness: a tick has evaluated a pass-through row inside its approach
\* window and then a terminal-here pass-through row far from its time, and
\* the platform notice is on.
C38_WitnessNotice ==
    /\ lastOp = "tick"
    /\ notice_active
    /\ Len(model) = 2
    /\ PassOnly(model[1]) /\ TerminalPass(model[2])
    /\ AddedIds = {}
    /\ Delta(model[2], now) > ApproachBeforeSecs

\* C38 witness: a tick has removed a terminal-here pass-through row 70 s
\* after its time.
C38_WitnessRemoved ==
    /\ lastOp = "tick"
    /\ \E i \in removedNow :
          /\ all_items[i].raw.type = TerminalType /\ all_items[i].raw.pass_through
          /\ now = all_items[i].time + DwellSecs + RemoveAfterSecs

\* the one timer of the Debouncer: the one _after_id names, due delay_ms
\* after the last trigger() call
OneTimer == timers = {<<Val(after_id), Val(last_trigger) + DelayMs>>}

C39_OnePending ==
    /\ Cardinality(timers) <= 1
    /\ IsNone(after_id) <=> timers = {}
    /\ ~IsNone(after_id) => ~IsNone(last_trigger) /\ OneTimer /\ saves = 0

C39_Steps ==
    /\ lastOp' = "trigger" =>
          /\ ~IsNone(after_id') /\ last_trigger' = Some(ms)
          /\ timers' = {<<Val(after_id'), ms + DelayMs>>}
          /\ \A t \in timers : t[1] # Val(after_id')
    /\ lastOp' = "run" =>
          /\ ~IsNone(last_trigger) /\ OneTimer
          /\ ms >= Val(last_trigger) + DelayMs
          /\ saves = 0 /\ saves' = 1
          /\ timers' = {} /\ IsNone(after_id')

\* C39: the Debouncer of the schedule editor has at most one timer pending,
\* the one _after_id names; a trigger() call leaves exactly one timer, a new
\* one due delay_ms later, the former one cancelled; the callback runs only
\* for the timer of the last trigger() call, not before delay_ms after that
\* call, at most once per last call, and leaves no timer pending; and after
\* every trigger() call the callback does run once no later call replaces it.
C39_Debounce ==
    /\ []C39_OnePending
    /\ [][C39_Steps]_vars
    /\ (~IsNone(after_id) ~> (IsNone(after_id) /\ saves = 1))

\* C39 witness: the callback has run once, delay_ms after the last trigger()
\* call of a burst of two or more that began at 0 ms and ended at 400 ms.
C39_Witness ==
    /\ lastOp = "run"
    /\ saves = 1
    /\ burst = 2
    /\ last_trigger = Some(EditorStepMs)
    /\ ms = EditorStepMs + DelayMs
    /\ timers = {}

====
